---- MODULE Spec2Model ----
(***************************************************************************)
(* Model of the gondola simulation: the Hermite spline (Spline) and the    *)
(* motion integrator (Gondola) that slides along it.                       *)
(*                                                                         *)
(* A C++ float is modelled as an IEEE-754 binary32 number, held as its bit *)
(* pattern read as a sign-magnitude integer: for x > 0 the code of x is    *)
(* E * 2^23 + F, where x = (2^23 + F) * 2^(E - 150), and the code of -x is *)
(* minus the code of x.  Codes are ordered as the numbers they stand for.  *)
(* Every operation computes the exact result and rounds it to the nearest  *)
(* float, ties to even.  NaN is absorbing and every comparison with NaN is *)
(* false; x / 0 is an infinity; 0 / 0, Inf - Inf, 0 * Inf and the square   *)
(* root of a negative number are NaN.  A result below the smallest normal  *)
(* float is flushed to zero, and zero has no sign.                         *)
(***************************************************************************)
EXTENDS Integers, Sequences, FiniteSets

\* ------------------------------------------------------------------ floats
\* The arithmetic is written as functions (AddF[a, b], ...) so that every
\* operand is evaluated once, and wrapped in operators (FAdd(a, b), ...).

MantBits == 2 ^ 23                  \* the hidden bit of a mantissa
MantTop == 2 ^ 24                   \* mantissas are in MantBits..(MantTop - 1)
ExpBias == 127 + 23                 \* exponent of the mantissa's unit, biased
PInf == 255 * MantBits              \* +infinity
NInf == 0 - PInf                    \* -infinity
NaN == PInf + 1                     \* the not-a-number value
V2 == Int \X Int                    \* vec2

IsNaN(a) == a = NaN
Abs(a) == IF a < 0 THEN 0 - a ELSE a
Sign(a) == IF a < 0 THEN 0 - 1 ELSE IF a > 0 THEN 1 ELSE 0
IsInf(a) == a = PInf \/ a = NInf

\* the mantissa and the exponent of a finite non-zero code: |x| = Mant * 2^Expo
Mant(a) == MantBits + (Abs(a) % MantBits)
Expo(a) == (Abs(a) \div MantBits) - ExpBias

\* the number of bits of m >= 0
BitLen[m \in Nat] == IF m = 0 THEN 0 ELSE 1 + BitLen[m \div 2]

\* the float sign * m * 2^e for a mantissa m in MantBits..MantTop
Pack[sign \in Int, m \in Nat, e \in Int] ==
    LET mm == IF m = MantTop THEN MantBits ELSE m
        ee == (IF m = MantTop THEN e + 1 ELSE e) + ExpBias
    IN  IF ee >= 255 THEN sign * PInf
        ELSE IF ee <= 0 THEN 0
        ELSE sign * (ee * MantBits + (mm - MantBits))

\* m shifted right by sh >= 1 bits and rounded to nearest, ties to even
RoundShift[m \in Nat, sh \in Nat] ==
    LET q == m \div (2 ^ sh)
        r == m % (2 ^ sh)
        half == 2 ^ (sh - 1)
    IN  IF r > half \/ (r = half /\ q % 2 = 1) THEN q + 1 ELSE q

\* the float nearest to sign * m * 2^e, for 0 < m < 2^31; an odd m may stand
\* for any number strictly between m - 1 and m + 1 when m has over 26 bits
RoundPackL[sign \in Int, m \in Nat, e \in Int, len \in Nat] ==
    IF len <= 24 THEN Pack[sign, m * (2 ^ (24 - len)), e - (24 - len)]
    ELSE Pack[sign, RoundShift[m, len - 24], e + (len - 24)]

RoundPack(sign, m, e) ==
    IF m = 0 THEN 0 ELSE RoundPackL[sign, m, e, BitLen[m]]

\* m with its lowest bit set when sticky: something non-zero was cut off below
Sticky(m, sticky) == IF sticky /\ m % 2 = 0 THEN m + 1 ELSE m

\* the float of a small integer
IntF[n \in Int] == RoundPack(Sign(n), Abs(n), 0)
F(n) == IntF[n]

\* float comparisons: false as soon as one side is NaN
LtF[a \in Int, b \in Int] == ~IsNaN(a) /\ ~IsNaN(b) /\ a < b
LeF[a \in Int, b \in Int] == ~IsNaN(a) /\ ~IsNaN(b) /\ a <= b
FLt(a, b) == LtF[a, b]
FLe(a, b) == LeF[a, b]
FGt(a, b) == LtF[b, a]

NegF[a \in Int] == IF IsNaN(a) THEN NaN ELSE 0 - a
FNeg(a) == NegF[a]

\* a + b for finite non-zero a, b with |a| >= |b|: b's mantissa is aligned to
\* a's with 6 guard bits and a sticky bit
AddMag[a \in Int, b \in Int] ==
    LET d == Expo(a) - Expo(b)
        x == Mant(a) * 64
        yf == Mant(b) * 64
        y == IF d >= 31 THEN 0 ELSE yf \div (2 ^ d)
        lost == IF d >= 31 THEN TRUE ELSE yf % (2 ^ d) # 0
        sum == IF Sign(a) = Sign(b) THEN x + y
               ELSE IF lost THEN x - y - 1 ELSE x - y
    IN  RoundPack(Sign(a), Sticky(sum, lost), Expo(a) - 6)

AddF[a \in Int, b \in Int] ==
    IF IsNaN(a) \/ IsNaN(b) THEN NaN
    ELSE IF IsInf(a) /\ IsInf(b) THEN (IF a = b THEN a ELSE NaN)
    ELSE IF IsInf(a) THEN a
    ELSE IF IsInf(b) THEN b
    ELSE IF a = 0 THEN b
    ELSE IF b = 0 THEN a
    ELSE IF Abs(a) >= Abs(b) THEN AddMag[a, b]
    ELSE AddMag[b, a]
FAdd(a, b) == AddF[a, b]
FSub(a, b) == AddF[a, NegF[b]]

\* |a| * |b| for finite non-zero a, b: the 48-bit product of the mantissas,
\* built from 12-bit halves, cut to 30 bits and a sticky bit
MulMag[a \in Int, b \in Int] ==
    LET h1 == Mant(a) \div 4096
        l1 == Mant(a) % 4096
        h2 == Mant(b) \div 4096
        l2 == Mant(b) % 4096
        mid == h1 * l2 + l1 * h2
        low == (mid % 4096) * 4096 + l1 * l2
        hi == h1 * h2 + (mid \div 4096) + (low \div MantTop)
        lo == low % MantTop
    IN  RoundPack(Sign(a) * Sign(b),
                  Sticky(hi * 64 + (lo \div (2 ^ 18)), lo % (2 ^ 18) # 0),
                  Expo(a) + Expo(b) + 18)

MulF[a \in Int, b \in Int] ==
    IF IsNaN(a) \/ IsNaN(b) THEN NaN
    ELSE IF (IsInf(a) /\ b = 0) \/ (IsInf(b) /\ a = 0) THEN NaN
    ELSE IF IsInf(a) \/ IsInf(b) THEN Sign(a) * Sign(b) * PInf
    ELSE IF a = 0 \/ b = 0 THEN 0
    ELSE MulMag[a, b]
FMul(a, b) == MulF[a, b]

\* long division: q, the quotient so far, gets `bits` more bits from r / y
\* (r < y); the result is the quotient with a sticky bit
DivBits[q \in Nat, r \in Nat, y \in Nat, bits \in Nat] ==
    IF bits = 0 THEN Sticky(q, r # 0)
    ELSE DivBits[q * 64 + ((r * 64) \div y), (r * 64) % y, y, bits - 6]

\* |a| / |b| for finite non-zero a, b
DivMag[a \in Int, b \in Int] ==
    RoundPack(Sign(a) * Sign(b),
              DivBits[Mant(a) \div Mant(b), Mant(a) % Mant(b), Mant(b), 30],
              Expo(a) - Expo(b) - 30)

DivF[a \in Int, b \in Int] ==
    IF IsNaN(a) \/ IsNaN(b) THEN NaN
    ELSE IF IsInf(a) /\ IsInf(b) THEN NaN
    ELSE IF b = 0 THEN (IF a = 0 THEN NaN ELSE Sign(a) * PInf)
    ELSE IF IsInf(a) THEN Sign(a) * Sign(b) * PInf
    ELSE IF IsInf(b) \/ a = 0 THEN 0
    ELSE DivMag[a, b]
FDiv(a, b) == DivF[a, b]

\* square root digit by digit: root and rem after the radicand's first pairs of
\* bits; m holds the pairs still to come (pairs of them, the rest are zeros)
SqrtBits[root \in Nat, rem \in Nat, m \in Nat, pairs \in Nat, left \in Nat] ==
    IF left = 0 THEN Sticky(root, rem # 0)
    ELSE LET next == IF pairs = 0 THEN 0 ELSE (m \div (4 ^ (pairs - 1))) % 4
             r == rem * 4 + next
             t == root * 4 + 1
         IN  IF r >= t
             THEN SqrtBits[root * 2 + 1, r - t, m,
                           IF pairs = 0 THEN 0 ELSE pairs - 1, left - 1]
             ELSE SqrtBits[root * 2, r, m,
                           IF pairs = 0 THEN 0 ELSE pairs - 1, left - 1]

\* the square root of a finite a > 0: of m * 2^28 where m * 2^e = a and e is even
SqrtMag[a \in Int] ==
    LET odd == Expo(a) % 2 = 1
        m == IF odd THEN Mant(a) * 2 ELSE Mant(a)
        e == IF odd THEN Expo(a) - 1 ELSE Expo(a)
    IN  RoundPack(1, SqrtBits[0, 0, m, 13, 27], (e \div 2) - 14)

SqrtF[a \in Int] ==
    IF IsNaN(a) \/ a < 0 THEN NaN
    ELSE IF a = PInf \/ a = 0 THEN a
    ELSE SqrtMag[a]
FSqrt(a) == SqrtF[a]

Pow2(a) == MulF[a, a]
Pow3F[a \in Int] == MulF[MulF[a, a], a]
Pow3(a) == Pow3F[a]

\* ----------------------------------------------------------------- vec2

Vec(x, y) == <<x, y>>
AddV[u \in V2, v \in V2] == <<AddF[u[1], v[1]], AddF[u[2], v[2]]>>
SubV[u \in V2, v \in V2] == <<FSub(u[1], v[1]), FSub(u[2], v[2])>>
ScaleV[u \in V2, k \in Int] == <<MulF[u[1], k], MulF[u[2], k]>>
DivV[u \in V2, k \in Int] == <<DivF[u[1], k], DivF[u[2], k]>>
DotV[u \in V2, v \in V2] == AddF[MulF[u[1], v[1]], MulF[u[2], v[2]]]
VAdd(u, v) == AddV[u, v]
VSub(u, v) == SubV[u, v]
VScale(u, k) == ScaleV[u, k]
VDiv(u, k) == DivV[u, k]
Dot(u, v) == DotV[u, v]
lengthV[u \in V2] == SqrtF[DotV[u, u]]
length(u) == lengthV[u]
\* v * inversesqrt(dot(v, v)): the zero vector gives 0 * Inf = NaN
normalizeV[u \in V2] == ScaleV[u, DivF[F(1), SqrtF[DotV[u, u]]]]
normalize(u) == normalizeV[u]
\* (-v.y, v.x), the vector turned a quarter circle to the left
LeftOfV[u \in V2] == <<NegF[u[2]], u[1]>>
LeftOf(u) == LeftOfV[u]
VecIsNaN(u) == IsNaN(u[1]) \/ IsNaN(u[2])

\* --------------------------------------------------------------- Spline

\* the coefficients a2 and a3 of Hermite, for d = t1 - t0
CoefA2[p0 \in V2, v0 \in V2, p1 \in V2, v1 \in V2, d \in Int] ==
    VSub(VDiv(VDiv(VScale(VSub(p1, p0), F(3)), d), d),
         VDiv(VAdd(v1, VScale(v0, F(2))), d))

CoefA3[p0 \in V2, v0 \in V2, p1 \in V2, v1 \in V2, d \in Int] ==
    VAdd(VDiv(VScale(VSub(p0, p1), F(2)), Pow3(d)),
         VDiv(VAdd(v1, v0), Pow2(d)))

HermiteV[p0 \in V2, v0 \in V2, t0 \in Int, p1 \in V2, v1 \in V2, t1 \in Int, t \in Int] ==
    LET d == FSub(t1, t0)
        s == FDiv(FSub(t, t0), d)
        a0 == p0
        a1 == v0
        a2 == CoefA2[p0, v0, p1, v1, d]
        a3 == CoefA3[p0, v0, p1, v1, d]
    IN  VAdd(VScale(VAdd(VScale(VAdd(VScale(a3, s), a2), s), a1), s), a0)

\* Hermite with 2 for the 3 in a2
HermiteTwoInA2(p0, v0, t0, p1, v1, t1, t) ==
    LET d == FSub(t1, t0)
        s == FDiv(FSub(t, t0), d)
        a2 == VSub(VDiv(VDiv(VScale(VSub(p1, p0), F(2)), d), d),
                   VDiv(VAdd(v1, VScale(v0, F(2))), d))
        a3 == VAdd(VDiv(VScale(VSub(p0, p1), F(2)), Pow3(d)),
                   VDiv(VAdd(v1, v0), Pow2(d)))
    IN  VAdd(VScale(VAdd(VScale(VAdd(VScale(a3, s), a2), s), v0), s), p0)

Hermite(p0, v0, t0, p1, v1, t1, t) == HermiteV[p0, v0, t0, p1, v1, t1, t]

\* the segment evaluate uses for t: the first i with ts[i] <= t <= ts[i+1]
\* (1-based), or 0 when the scan finds none
ScanFrom[tsq \in Seq(Int), t \in Int, i \in Nat] ==
    IF i > Len(tsq) - 1 THEN 0
    ELSE IF FLe(tsq[i], t) /\ FLe(t, tsq[i + 1]) THEN i
    ELSE ScanFrom[tsq, t, i + 1]

FindSegment(tsq, t) == ScanFrom[tsq, t, 1]

\* v0 taken from the segment's own two points
StartTangentOneSided(cpsq, tsq, i) ==
    IF i > 1
    THEN VDiv(VSub(cpsq[i + 1], cpsq[i]), FSub(tsq[i + 1], tsq[i]))
    ELSE Vec(0, 0)

\* the tangent v0 evaluate gives segment i (1-based) at its start
StartTangent(cpsq, tsq, i) ==
    IF i > 1
    THEN VDiv(VSub(cpsq[i + 1], cpsq[i - 1]), FSub(tsq[i + 1], tsq[i - 1]))
    ELSE Vec(0, 0)

\* the tangent v1 evaluate gives segment i at its end
EndTangent(cpsq, tsq, i) ==
    IF i < Len(cpsq) - 1
    THEN VDiv(VSub(cpsq[i + 2], cpsq[i]), FSub(tsq[i + 2], tsq[i]))
    ELSE Vec(0, 0)

\* the Hermite segment i of the spline, evaluated at t
SegmentV[cpsq \in Seq(V2), tsq \in Seq(Int), i \in Nat, t \in Int] ==
    Hermite(cpsq[i], StartTangent(cpsq, tsq, i), tsq[i],
            cpsq[i + 1], EndTangent(cpsq, tsq, i), tsq[i + 1], t)

Segment(cpsq, tsq, i, t) == SegmentV[cpsq, tsq, i, t]

\* what evaluate returns when the scan has chosen segment i (0: none)
EvaluateAt(cpsq, tsq, i, t) ==
    IF i = 0 THEN cpsq[Len(cpsq)] ELSE Segment(cpsq, tsq, i, t)

\* evaluate that returns the control point of a spline of one point
evaluateSinglePoint(cpsq, tsq, t) ==
    IF Len(cpsq) = 0 THEN Vec(0, 0)
    ELSE IF Len(cpsq) = 1 THEN cpsq[1]
    ELSE EvaluateAt(cpsq, tsq, FindSegment(tsq, t), t)

evaluate(cpsq, tsq, t) ==
    IF Len(cpsq) < 2 THEN Vec(0, 0)
    ELSE EvaluateAt(cpsq, tsq, FindSegment(tsq, t), t)

\* the knots numbered from 1
NextKnotFromOne(sp) ==
    IF Len(sp.cps_) = 0 THEN F(1) ELSE FAdd(sp.ts_[Len(sp.ts_)], F(1))

\* the knot addControlPoint gives the new point
NextKnot(sp) ==
    IF Len(sp.cps_) = 0 THEN F(0) ELSE FAdd(sp.ts_[Len(sp.ts_)], F(1))

getKnots(sp) == sp.ts_

\* addControlPoint that puts the new point in front of the others
addControlPointInFront(sp, cp) ==
    [cps_ |-> <<cp>> \o sp.cps_, ts_ |-> Append(sp.ts_, NextKnot(sp))]

addControlPoint(sp, cp) ==
    [cps_ |-> Append(sp.cps_, cp), ts_ |-> Append(sp.ts_, NextKnot(sp))]

\* -------------------------------------------------------------- Gondola

h == FDiv(F(1), F(1000))            \* 0.001f, the finite-difference step
EPSILON == FDiv(F(1), F(1000))      \* 0.001f
GRAVITY == F(40)                    \* 40.0f
gondolaRadius_ == F(1)              \* 1.0f
StartProgress == FDiv(F(1), F(100)) \* 0.01f
EnergyOffset == FDiv(F(1), F(2))    \* 0.5f

\* the difference quotients, of the samples plus = evaluate(t + h),
\* at = evaluate(t) and minus = evaluate(t - h)
derivativeOf(plus, minus) == VDiv(VSub(plus, minus), FMul(F(2), h))

secondDerivativeOf(plus, at, minus) ==
    VDiv(VAdd(VSub(plus, VScale(at, F(2))), minus), FMul(h, h))

derivative(sp, t) ==
    derivativeOf(evaluate(sp.cps_, sp.ts_, FAdd(t, h)),
                 evaluate(sp.cps_, sp.ts_, FSub(t, h)))

secondDerivative(sp, t) ==
    secondDerivativeOf(evaluate(sp.cps_, sp.ts_, FAdd(t, h)),
                       evaluate(sp.cps_, sp.ts_, t),
                       evaluate(sp.cps_, sp.ts_, FSub(t, h)))

\* the Gondola after construction
NewGondola ==
    [state_ |-> "Waiting", progressAlongSpline_ |-> 0, velocity_ |-> 0,
     energy_ |-> 0, position_ |-> Vec(0, 0), rotationAngle_ |-> 0]

\* start() in state Waiting, from r = evaluate(0.01) and T = normalize(derivative(0.01))
StartedV[r \in V2, T \in V2] ==
    [state_ |-> "Started",
     progressAlongSpline_ |-> StartProgress,
     velocity_ |-> 0,
     energy_ |-> FAdd(FMul(GRAVITY, r[2]), EnergyOffset),
     position_ |-> VAdd(r, VScale(LeftOf(T), gondolaRadius_)),
     rotationAngle_ |-> 0]

\* start() without its test of the state
startUnguarded(g, sp) ==
    StartedV[evaluate(sp.cps_, sp.ts_, StartProgress),
             normalize(derivative(sp, StartProgress))]

\* start() that clears the velocity before its test of the state
startClearsVelocity(g, sp) ==
    IF g.state_ = "Waiting"
    THEN StartedV[evaluate(sp.cps_, sp.ts_, StartProgress),
                  normalize(derivative(sp, StartProgress))]
    ELSE [g EXCEPT !.velocity_ = 0]

start(g, sp) ==
    IF g.state_ = "Waiting"
    THEN StartedV[evaluate(sp.cps_, sp.ts_, StartProgress),
                  normalize(derivative(sp, StartProgress))]
    ELSE g

\* what animate takes the square root of
SqrtArgument(initialHeight, currentHeight) ==
    FDiv(FMul(FMul(F(2), GRAVITY), FSub(initialHeight, currentHeight)), F(2))

\* the velocity animate computes from the two heights
Velocity(initialHeight, currentHeight) ==
    FSqrt(SqrtArgument(initialHeight, currentHeight))

\* the force animate tests
TotalForce(curvature, velocity, normalY) ==
    FAdd(FMul(FMul(curvature, velocity), velocity), FMul(GRAVITY, normalY))

Curvature(tangent, secondTangent, tangentLength) ==
    FDiv(FSub(FMul(tangent[1], secondTangent[2]), FMul(tangent[2], secondTangent[1])),
         Pow3(tangentLength))

\* the locals of animate, from the spline samples: position = evaluate(progress),
\* tangent = derivative(progress), secondTangent = secondDerivative(progress),
\* origin = evaluate(0.0f)
LocalsV[position \in V2, tangent \in V2, secondTangent \in V2, origin \in V2] ==
    LET tangentLength == length(tangent)
        normalizedTangent == VDiv(tangent, tangentLength)
        normal == LeftOf(normalizedTangent)
        currentHeight == VAdd(position, VScale(normal, gondolaRadius_))[2]
        initialHeight == VAdd(origin, VScale(normal, gondolaRadius_))[2]
        velocity == Velocity(initialHeight, currentHeight)
        curvature == Curvature(tangent, secondTangent, tangentLength)
    IN  [position |-> position,
         tangentLength |-> tangentLength,
         normal |-> normal,
         currentHeight |-> currentHeight,
         initialHeight |-> initialHeight,
         velocity |-> velocity,
         curvature |-> curvature,
         totalForce |-> TotalForce(curvature, velocity, normal[2])]

\* the locals, of the samples of the spline that animate, derivative and
\* secondDerivative take: evaluate is a function of the spline and t, so each
\* sample is taken once here
SampledLocals[at \in V2, plus \in V2, minus \in V2, origin \in V2] ==
    LocalsV[at, derivativeOf(plus, minus), secondDerivativeOf(plus, at, minus), origin]

\* the locals animate computes from the spline at the gondola's progress:
\* position = evaluate(progress), tangent = derivative(progress),
\* secondDerivative(progress), and evaluate(0) for the initial height
AnimateLocals(g, sp) ==
    SampledLocals[evaluate(sp.cps_, sp.ts_, g.progressAlongSpline_),
                  evaluate(sp.cps_, sp.ts_, FAdd(g.progressAlongSpline_, h)),
                  evaluate(sp.cps_, sp.ts_, FSub(g.progressAlongSpline_, h)),
                  evaluate(sp.cps_, sp.ts_, 0)]

LocalsType ==
    [position : V2, tangentLength : Int, normal : V2, currentHeight : Int,
     initialHeight : Int, velocity : Int, curvature : Int, totalForce : Int]

GondolaType ==
    [state_ : {"Waiting", "Started", "Fallen"}, progressAlongSpline_ : Int,
     velocity_ : Int, energy_ : Int, position_ : V2, rotationAngle_ : Int]

\* the update that leaves the position and the rotation angle alone when the
\* progress passes the last knot
AdvancedUnlessPastEnd(g, L, dt, back, p) ==
    IF FGt(p, back)
    THEN [g EXCEPT !.state_ = "Fallen", !.progressAlongSpline_ = p,
                   !.velocity_ = L.velocity]
    ELSE [state_ |-> "Started",
          progressAlongSpline_ |-> p,
          velocity_ |-> L.velocity,
          energy_ |-> g.energy_,
          position_ |-> VAdd(L.position, VScale(L.normal, gondolaRadius_)),
          rotationAngle_ |->
              FSub(g.rotationAngle_, FMul(FDiv(L.velocity, gondolaRadius_), dt))]

\* the update at the end of animate, once the force test has passed; p is the
\* new progress
Advanced(g, L, dt, back, p) ==
    [state_ |-> IF FGt(p, back) THEN "Fallen" ELSE "Started",
     progressAlongSpline_ |-> p,
     velocity_ |-> L.velocity,
     energy_ |-> g.energy_,
     position_ |-> VAdd(L.position, VScale(L.normal, gondolaRadius_)),
     rotationAngle_ |->
         FSub(g.rotationAngle_, FMul(FDiv(L.velocity, gondolaRadius_), dt))]

\* animate(dt) in state Started, with its locals L
StepV[g \in GondolaType, L \in LocalsType, dt \in Int, back \in Int] ==
    IF FLt(L.tangentLength, EPSILON) THEN g
    ELSE IF FLt(L.totalForce, 0)
    THEN [g EXCEPT !.velocity_ = L.velocity, !.state_ = "Fallen"]
    ELSE Advanced(g, L, dt, back,
                  FAdd(g.progressAlongSpline_,
                       FDiv(FMul(L.velocity, dt), L.tangentLength)))

\* the step with the progress going backwards
StepBackwardsV[g \in GondolaType, L \in LocalsType, dt \in Int, back \in Int] ==
    IF FLt(L.tangentLength, EPSILON) THEN g
    ELSE IF FLt(L.totalForce, 0)
    THEN [g EXCEPT !.velocity_ = L.velocity, !.state_ = "Fallen"]
    ELSE Advanced(g, L, dt, back,
                  FSub(g.progressAlongSpline_,
                       FDiv(FMul(L.velocity, dt), L.tangentLength)))

StepBackwards(g, L, dt, back) == StepBackwardsV[g, L, dt, back]

\* the step with the force tested by <= 0
StepFallsOnZeroForceV[g \in GondolaType, L \in LocalsType, dt \in Int, back \in Int] ==
    IF FLt(L.tangentLength, EPSILON) THEN g
    ELSE IF FLe(L.totalForce, 0)
    THEN [g EXCEPT !.velocity_ = L.velocity, !.state_ = "Fallen"]
    ELSE Advanced(g, L, dt, back,
                  FAdd(g.progressAlongSpline_,
                       FDiv(FMul(L.velocity, dt), L.tangentLength)))

StepFallsOnZeroForce(g, L, dt, back) == StepFallsOnZeroForceV[g, L, dt, back]

\* the step with the velocity stored before the test of the tangent
StepStoresVelocityFirstV[g \in GondolaType, L \in LocalsType, dt \in Int, back \in Int] ==
    IF FLt(L.tangentLength, EPSILON) THEN [g EXCEPT !.velocity_ = L.velocity]
    ELSE StepV[g, L, dt, back]

StepStoresVelocityFirst(g, L, dt, back) == StepStoresVelocityFirstV[g, L, dt, back]

\* the step without the test of the tangent's length
StepWithoutTangentTest(g, L, dt, back) ==
    IF FLt(L.totalForce, 0)
    THEN [g EXCEPT !.velocity_ = L.velocity, !.state_ = "Fallen"]
    ELSE Advanced(g, L, dt, back,
                  FAdd(g.progressAlongSpline_,
                       FDiv(FMul(L.velocity, dt), L.tangentLength)))

Step(g, L, dt, back) == StepV[g, L, dt, back]

\* animate(dt) without its test of the state
animateUnguarded(g, sp, dt, back) ==
    Step(g, AnimateLocals(g, sp), dt, back)

\* animate(dt); back is what getKnots().back() yields (any value when the
\* vector is empty: the read is undefined)
animate(g, sp, dt, back) ==
    IF g.state_ # "Started" THEN g
    ELSE Step(g, AnimateLocals(g, sp), dt, back)

\* ------------------------------------------------------ bounds and inputs

MaxPoints == 3
MaxSteps == 2

\* the clicks: three corners of the unit square and the point (0.1f, 0.7f)
Clicks ==
    {Vec(F(0), F(0)), Vec(F(0), F(1)), Vec(F(1), F(0)),
     Vec(FDiv(F(1), F(10)), FDiv(F(7), F(10)))}
SubStep == FDiv(F(1), F(100))       \* the driver's dt = 0.01f
LongStep == FDiv(F(3), F(10))       \* a long tick, 0.3f
Dts == {0, SubStep, LongStep}
\* parameters to evaluate at: every knot, half-way points, and both outsides
QueryTs ==
    {FDiv(F(k), F(2)) : k \in (0 - 2)..(2 * MaxPoints)} \cup {StartProgress}

\* ---------------------------------------------------------------- state

VARIABLES spline_, gondola_, steps, last, query, tick

vars == <<spline_, gondola_, steps, last, query, tick>>

NoCall == [op |-> "none", dt |-> 0, pre |-> NewGondola]

\* MyApp::onTimeElapsed not running: no interval, no sub-step made
NoTick ==
    [running |-> FALSE, startTime |-> 0, endTime |-> 0, t |-> 0, Dt |-> 0,
     calls |-> 0, total |-> 0, shortBefore |-> FALSE]

Init ==
    /\ spline_ = [cps_ |-> <<>>, ts_ |-> <<>>]
    /\ gondola_ = NewGondola
    /\ steps = 0
    /\ last = NoCall
    /\ query = [t |-> 0, result |-> Vec(0, 0)]
    /\ tick = NoTick

Called(op, dt) == [op |-> op, dt |-> dt, pre |-> gondola_]

\* MyApp::onMousePressed
AddControlPoint ==
    \E cp \in Clicks :
        /\ Len(spline_.cps_) < MaxPoints
        /\ spline_' = addControlPoint(spline_, cp)
        /\ last' = Called("addControlPoint", 0)
        /\ UNCHANGED <<gondola_, steps, query, tick>>

\* MyApp::onKeyboard
Start ==
    /\ gondola_' = start(gondola_, spline_)
    /\ last' = Called("start", 0)
    /\ UNCHANGED <<spline_, steps, query, tick>>

\* what getKnots().back() can read: the last knot, or anything when ts_ is empty
Backs ==
    IF Len(getKnots(spline_)) > 0
    THEN {getKnots(spline_)[Len(getKnots(spline_))]}
    ELSE {F(0 - 1), F(MaxPoints)}

\* a call of Gondola::animate, as MyApp::onTimeElapsed makes for each sub-step
Animate ==
    \E dt \in Dts :
        \E back \in Backs :
            /\ steps < MaxSteps
            /\ gondola_' = animate(gondola_, spline_, dt, back)
            /\ steps' = IF gondola_.state_ = "Started" THEN steps + 1 ELSE steps
            /\ last' = Called("animate", dt)
            /\ UNCHANGED <<spline_, query, tick>>

Next == AddControlPoint \/ Start \/ Animate

Spec == Init /\ [][Next]_vars

\* Spline::evaluate queried on its own
Evaluate ==
    \E t \in QueryTs :
        /\ query' = [t |-> t, result |-> evaluate(spline_.cps_, spline_.ts_, t)]
        /\ last' = Called("evaluate", 0)
        /\ UNCHANGED <<spline_, gondola_, steps, tick>>

NextEval == AddControlPoint \/ Evaluate

SpecEval == Init /\ [][NextEval]_vars

\* ----------------------------------------------------------- the driver

\* fmin: the smaller argument, and the other one when one is not a number
fmin(a, b) == IF IsNaN(a) THEN b ELSE IF IsNaN(b) THEN a ELSE IF FLt(b, a) THEN b ELSE a

\* the exact value of a float x with 0 <= x < 2, in units of 2^-30
Exact(a) ==
    IF a = 0 THEN 0
    ELSE IF Expo(a) + 30 >= 0 THEN Mant(a) * (2 ^ (Expo(a) + 30))
    ELSE Mant(a) \div (2 ^ (0 - (Expo(a) + 30)))

\* the times a tick starts at: at launch, after a second, after 4096 seconds
TickStarts == {F(0), F(1), F(4096)}
\* the lengths of a tick: none, backwards, parts of a sub-step, and longer
TickSpans ==
    {F(0), FDiv(F(0 - 1), F(80)), FDiv(F(1), F(200)), FDiv(F(1), F(80)),
     FDiv(F(1), F(40)), FDiv(F(3), F(80)), FDiv(F(1), F(2))}

\* MyApp::onTimeElapsed is called: float t = startTime
TimeElapsed ==
    \E startTime \in TickStarts : \E span \in TickSpans :
        /\ ~tick.running
        /\ tick' = [NoTick EXCEPT !.running = TRUE, !.startTime = startTime,
                                  !.endTime = FAdd(startTime, span), !.t = startTime]
        /\ last' = Called("onTimeElapsed", 0)
        /\ UNCHANGED <<spline_, gondola_, steps, query>>

\* one pass of the loop: t < endTime, Dt = fmin(dt, endTime - t), animate(Dt), t += dt
SubStepCall ==
    \E back \in Backs :
        LET Dt == fmin(SubStep, FSub(tick.endTime, tick.t))
        IN  /\ tick.running
            /\ FLt(tick.t, tick.endTime)
            /\ gondola_' = animate(gondola_, spline_, Dt, back)
            /\ steps' = IF gondola_.state_ = "Started" THEN steps + 1 ELSE steps
            /\ tick' = [tick EXCEPT !.t = FAdd(tick.t, SubStep), !.Dt = Dt,
                                    !.calls = tick.calls + 1,
                                    !.total = tick.total + Exact(Dt),
                                    !.shortBefore = tick.shortBefore
                                        \/ (tick.calls > 0 /\ FLt(tick.Dt, SubStep))]
            /\ last' = Called("animate", Dt)
            /\ UNCHANGED <<spline_, query>>

\* the loop ends: t < endTime is false, refreshScreen()
TickDone ==
    /\ tick.running
    /\ ~FLt(tick.t, tick.endTime)
    /\ tick' = [tick EXCEPT !.running = FALSE]
    /\ last' = Called("refreshScreen", 0)
    /\ UNCHANGED <<spline_, gondola_, steps, query>>

NextTick == TimeElapsed \/ SubStepCall \/ TickDone

SpecTick == Init /\ [][NextTick]_vars

\* ------------------------------------------------------------ properties

\* C1: under any interleaving of addControlPoint, start() and animate(dt) the
\* state only moves forward along Waiting -> Started -> Fallen: Waiting is left
\* only by start(), to Started; Started is left only by animate(dt), to Fallen;
\* nothing goes from Waiting to Fallen directly, and Fallen is never left.
StateOnlyMovesForward ==
    [][/\ (gondola_.state_ = "Waiting" /\ gondola_'.state_ # "Waiting")
           => (last'.op = "start" /\ gondola_'.state_ = "Started")
       /\ (gondola_.state_ = "Started" /\ gondola_'.state_ # "Started")
           => (last'.op = "animate" /\ gondola_'.state_ = "Fallen")
       /\ gondola_.state_ = "Fallen" => gondola_'.state_ = "Fallen"]_vars

\* start() has been called on a Fallen gondola, which is still Fallen
StartCalledOnFallen ==
    /\ last.op = "start"
    /\ last.pre.state_ = "Fallen"
    /\ gondola_.state_ = "Fallen"

\* C2: start() called in state Started or Fallen changes nothing: state,
\* progress, velocity, position, rotation angle and the stored energy all keep
\* their values.
StartOutsideWaitingChangesNothing ==
    [][(last'.op = "start" /\ gondola_.state_ # "Waiting")
       => gondola_' = gondola_]_vars

\* start() has been called on a Started gondola that had already moved on
StartCalledWhileMoving ==
    /\ last.op = "start"
    /\ last.pre.state_ = "Started"
    /\ FGt(last.pre.progressAlongSpline_, StartProgress)
    /\ FGt(last.pre.velocity_, 0)
    /\ last.pre.energy_ # 0

\* C3: animate(dt) called in state Waiting or Fallen changes nothing, for
\* every dt: state, progress, velocity, position and rotation angle all keep
\* their values.
AnimateOutsideStartedChangesNothing ==
    [][(last'.op = "animate" /\ gondola_.state_ # "Started")
       => gondola_' = gondola_]_vars

\* animate(dt) with dt > 0 has been called on a Fallen gondola over a track
AnimateCalledOnFallen ==
    /\ last.op = "animate"
    /\ FGt(last.dt, 0)
    /\ last.pre.state_ = "Fallen"
    /\ Len(spline_.cps_) >= 2

\* C4: after any sequence of addControlPoint calls the i-th point (from 0) has
\* knot exactly i: the first knot is 0, each knot is the previous one plus 1,
\* the knots are strictly increasing in insertion order, and the first and the
\* last of getKnots() are the knots of the first and the last point.
KnotsCountThePoints ==
    LET n == Len(spline_.cps_)
        ts == getKnots(spline_)
    IN  /\ Len(ts) = n
        /\ \A i \in 1..n : ts[i] = F(i - 1)
        /\ n > 0 => ts[1] = F(0)
        /\ \A i \in 2..n : ts[i] = FAdd(ts[i - 1], F(1)) /\ FLt(ts[i - 1], ts[i])
        /\ n > 0 => (\A i \in 1..n : FLe(ts[1], ts[i]) /\ FLe(ts[i], ts[n]))

\* a third point has just been added
ThreePointsAdded ==
    /\ last.op = "addControlPoint"
    /\ Len(spline_.cps_) >= 3

\* C5: with at least 2 points, evaluate(t) returns the first control point for
\* every t strictly below the first knot and the last control point for every
\* t strictly above the last knot.
EvaluateClampsToNearestEnd ==
    LET n == Len(spline_.cps_)
        ts == getKnots(spline_)
    IN  (last.op = "evaluate" /\ n >= 2) =>
            /\ FLt(query.t, ts[1]) => query.result = spline_.cps_[1]
            /\ FGt(query.t, ts[n]) => query.result = spline_.cps_[n]

\* the largest magnitude among the coordinates of the control points
MaxCoordinate(cpsq) ==
    LET all == {Abs(cpsq[i][k]) : i \in 1..Len(cpsq), k \in 1..2}
    IN  CHOOSE a \in all : \A b \in all : b <= a

\* 2^-18 of the largest coordinate
KnotTolerance(cpsq) == FMul(MaxCoordinate(cpsq), FDiv(F(1), F(2 ^ 18)))

Near(u, v, tol) == \A k \in 1..2 : FLe(Abs(FSub(u[k], v[k])), tol)

\* evaluate has just been called at the knot of point i of a track
EvaluatedAtKnot(i) ==
    /\ last.op = "evaluate"
    /\ Len(spline_.cps_) >= 2
    /\ i \in 1..Len(spline_.cps_)
    /\ query.t = getKnots(spline_)[i]

\* C6 as stated: with at least 2 points, evaluate(knot of point i) returns
\* exactly the position of point i, for the first, the last and every
\* interior point.
EvaluateAtKnotIsExact ==
    \A i \in 1..Len(spline_.cps_) :
        EvaluatedAtKnot(i) => query.result = spline_.cps_[i]

\* C6: with at least 2 points, evaluate(knot of point i) returns exactly the
\* position of the first point; for every later point the scan picks the
\* earlier segment, the one that ends at the knot (so no knot falls in a gap),
\* and the result is the position of point i up to the rounding of the float
\* arithmetic: within 2^-18 of the largest coordinate of the control points.
EvaluateAtKnotIsNear ==
    \A i \in 1..Len(spline_.cps_) :
        EvaluatedAtKnot(i) =>
            /\ i = 1 => query.result = spline_.cps_[1]
            /\ i > 1 => /\ FindSegment(getKnots(spline_), query.t) = i - 1
                        /\ Near(query.result, spline_.cps_[i],
                                KnotTolerance(spline_.cps_))

\* evaluate at the knot of a later point has returned a point that is not the
\* control point
EvaluatedOffTheKnot ==
    \E i \in 2..Len(spline_.cps_) :
        /\ EvaluatedAtKnot(i)
        /\ query.result # spline_.cps_[i]

\* C7: animate(0) in any state, Started after earlier animate(dt > 0) calls
\* included, leaves the progress, the position and the rotation angle
\* unchanged.
AnimateZeroChangesNothing ==
    [][(last'.op = "animate" /\ last'.dt = 0) =>
           /\ gondola_'.progressAlongSpline_ = gondola_.progressAlongSpline_
           /\ gondola_'.position_ = gondola_.position_
           /\ gondola_'.rotationAngle_ = gondola_.rotationAngle_]_vars

\* the locals of the animate call made last, and of the one being made
Pre == AnimateLocals(last.pre, spline_)
Now == AnimateLocals(gondola_, spline_)

\* animate(dt) with dt > 0 takes the gondola from Started to Started
StaysStarted ==
    /\ last'.op = "animate"
    /\ FGt(last'.dt, 0)
    /\ gondola_.state_ = "Started"
    /\ gondola_'.state_ = "Started"

\* the progress of g2, the gondola after a call that found g with the locals L,
\* is not behind the progress of g
ProgressKept[g \in GondolaType, g2 \in GondolaType, L \in LocalsType] ==
    IF FLt(L.tangentLength, EPSILON) \/ L.velocity = 0
    THEN g2.progressAlongSpline_ = g.progressAlongSpline_
    ELSE IF IsNaN(L.velocity)
    THEN IsNaN(g2.progressAlongSpline_)
    ELSE FLe(g.progressAlongSpline_, g2.progressAlongSpline_)

\* C8 as stated: every animate(dt) with dt > 0 that starts and ends in state
\* Started leaves the progress strictly greater than before.
ProgressStrictlyIncreases ==
    [][StaysStarted =>
           FGt(gondola_'.progressAlongSpline_, gondola_.progressAlongSpline_)]_vars

\* C8: an animate(dt) with dt > 0 that starts and ends in state Started never
\* leaves the progress smaller: the progress is unchanged when the tangent is
\* degenerate or the velocity is 0, it is not a number when the velocity is
\* not a number, and otherwise it is greater than or equal to what it was.
ProgressNeverDecreases ==
    [][StaysStarted => ProgressKept[gondola_, gondola_', Now]]_vars

\* animate(dt) with dt > 0 has run its update with velocity 0 on a track whose
\* tangent is not degenerate, and the progress is what it was
SteppedWithoutMoving ==
    /\ last.op = "animate"
    /\ FGt(last.dt, 0)
    /\ last.pre.state_ = "Started"
    /\ gondola_.state_ = "Started"
    /\ ~FLt(Pre.tangentLength, EPSILON)
    /\ Pre.velocity = 0
    /\ gondola_.progressAlongSpline_ = last.pre.progressAlongSpline_

\* C9: in every reachable state the velocity is a number >= 0: what animate
\* takes the square root of is never negative, so nothing that is not a number
\* is stored in the velocity, the progress or the rotation angle, or reaches
\* the force test.
VelocityIsAlwaysValid ==
    /\ ~IsNaN(gondola_.velocity_)
    /\ FLe(0, gondola_.velocity_)
    /\ ~IsNaN(gondola_.progressAlongSpline_)
    /\ ~IsNaN(gondola_.rotationAngle_)
    /\ (/\ last.op = "animate"
        /\ last.pre.state_ = "Started"
        /\ ~FLt(Pre.tangentLength, EPSILON))
       => /\ FLe(0, SqrtArgument(Pre.initialHeight, Pre.currentHeight))
          /\ ~IsNaN(Pre.totalForce)

\* g2, the gondola after a call that found g with the locals L on a spline of
\* knots tsq, is what the force test allows: nothing is asked when the tangent
\* is degenerate
ForceTested[g \in GondolaType, g2 \in GondolaType, L \in LocalsType,
            tsq \in Seq(Int)] ==
    IF FLt(L.tangentLength, EPSILON) THEN TRUE
    ELSE IF FLt(L.totalForce, 0)
    THEN /\ g2.state_ = "Fallen"
         /\ g2.progressAlongSpline_ = g.progressAlongSpline_
         /\ g2.position_ = g.position_
         /\ g2.rotationAngle_ = g.rotationAngle_
    ELSE /\ g2.position_ = VAdd(L.position, VScale(L.normal, gondolaRadius_))
         /\ g2.state_ = "Fallen" <=> FGt(g2.progressAlongSpline_, tsq[Len(tsq)])

DomainTested[g \in GondolaType, g2 \in GondolaType, L \in LocalsType,
             dt \in Int, tsq \in Seq(Int)] ==
    (~FLt(L.tangentLength, EPSILON) /\ FLe(0, L.totalForce)) =>
        /\ FGt(g2.progressAlongSpline_, tsq[Len(tsq)]) => g2.state_ = "Fallen"
        /\ FLe(g2.progressAlongSpline_, tsq[Len(tsq)]) => g2.state_ = "Started"
        /\ g2.state_ = "Fallen" => FGt(g2.progressAlongSpline_, tsq[Len(tsq)])
        /\ g2.position_ = VAdd(L.position, VScale(L.normal, gondolaRadius_))
        /\ g2.rotationAngle_ =
               FSub(g.rotationAngle_, FMul(FDiv(L.velocity, gondolaRadius_), dt))

\* C11: while the total force is non-negative, the gondola becomes Fallen in
\* exactly the first animate call whose updated progress is strictly greater
\* than the last knot of the spline as it is then; that call still updates the
\* position and the rotation angle, and a call whose updated progress is less
\* than or equal to the last knot leaves the gondola Started.
FallsExactlyPastTheLastKnot ==
    [][(last'.op = "animate" /\ gondola_.state_ = "Started")
       => DomainTested[gondola_, gondola_', Now, last'.dt, getKnots(spline_)]]_vars

\* animate has made the gondola Fallen by the progress passing the last knot,
\* with a total force that is not negative, after moving the position and
\* the rotation angle
FellPastTheLastKnot ==
    /\ last.op = "animate"
    /\ last.pre.state_ = "Started"
    /\ ~FLt(Pre.tangentLength, EPSILON)
    /\ FLe(0, Pre.totalForce)
    /\ gondola_.state_ = "Fallen"
    /\ FGt(gondola_.progressAlongSpline_, getKnots(spline_)[Len(getKnots(spline_))])
    /\ gondola_.position_ # last.pre.position_
    /\ gondola_.rotationAngle_ # last.pre.rotationAngle_

\* C12: animate(dt) called in state Started where the length of the tangent at
\* the current progress is below EPSILON (0.001) changes nothing at all: the
\* state stays Started and the progress, the velocity, the position and the
\* rotation angle keep their values.
DegenerateTangentAborts ==
    [][(/\ last'.op = "animate"
        /\ gondola_.state_ = "Started"
        /\ FLt(Now.tangentLength, EPSILON))
       => gondola_' = gondola_]_vars

\* animate(dt) with dt > 0 has been called on a Started gondola on a track of
\* two or more points whose tangent is degenerate at the progress
AbortedOnDegenerateTangent ==
    /\ last.op = "animate"
    /\ FGt(last.dt, 0)
    /\ last.pre.state_ = "Started"
    /\ Len(spline_.cps_) >= 2
    /\ FLt(Pre.tangentLength, EPSILON)
    /\ gondola_.state_ = "Started"

\* C13: with 0 or 1 control points evaluate(t) returns the origin (0, 0) for
\* every t, the knot of the single point included.
EvaluateOfFewPointsIsOrigin ==
    (last.op = "evaluate" /\ Len(spline_.cps_) < 2) => query.result = Vec(0, 0)

\* evaluate has been called at the knot of the only point, which is not the
\* origin
EvaluatedAtTheOnlyPoint ==
    /\ last.op = "evaluate"
    /\ Len(spline_.cps_) = 1
    /\ spline_.cps_[1] # Vec(0, 0)
    /\ query.t = getKnots(spline_)[1]
    /\ query.result = Vec(0, 0)

\* the energy the README's formula takes the square root of: 2 * g * (h0 - h)
DocumentedEnergy(initialHeight, currentHeight) ==
    FMul(FMul(F(2), GRAVITY), FSub(initialHeight, currentHeight))

\* a and b differ by at most 2^-10 of b
WithinAThousandth(a, b) ==
    FLe(Abs(FSub(a, b)), FMul(Abs(b), FDiv(F(1), F(2 ^ 10))))

\* C14: the velocity computed in each animate call satisfies the documented
\* formula v = sqrt(2 * g * (h0 - h)) with g = 40, that is v^2 = 2 * g * (h0 - h),
\* for the starting height h0 and the current height h (up to rounding,
\* wherever the gondola is not above h0).
VelocityFollowsDocumentedFormula ==
    (/\ last.op = "animate"
     /\ last.pre.state_ = "Started"
     /\ ~FLt(Pre.tangentLength, EPSILON)
     /\ FLe(Pre.currentHeight, Pre.initialHeight))
    => WithinAThousandth(FMul(gondola_.velocity_, gondola_.velocity_),
                         DocumentedEnergy(Pre.initialHeight, Pre.currentHeight))

\* the length of the tick's interval, exactly: endTime - startTime is exact in
\* float for every tick made here (startTime is 0 or endTime is below twice it)
TickLength == Exact(FSub(tick.endTime, tick.startTime))

\* C15: in a tick with endTime > startTime every sub-step passed to animate is
\* strictly positive and at most 0.01f, only the last one is shorter than
\* 0.01f, and when the loop has ended the sub-steps add up to exactly
\* endTime - startTime; a tick with endTime <= startTime makes no sub-step.
SubStepsAddUpToTheTick ==
    /\ tick.calls > 0 => (FLt(0, tick.Dt) /\ FLe(tick.Dt, SubStep))
    /\ ~tick.shortBefore
    /\ (last.op = "refreshScreen" /\ FLt(tick.startTime, tick.endTime))
        => tick.total = TickLength
    /\ ~FLt(tick.startTime, tick.endTime) => tick.calls = 0

\* a float of magnitude below 8 that is a whole number of units of 2^-28
Whole28(a) ==
    \/ a = 0
    \/ Abs(a) < F(8) /\ Expo(a) + 28 >= 0
    \/ Abs(a) < F(8) /\ Expo(a) + 28 >= 0 - 14 /\ Mant(a) % (2 ^ (0 - (Expo(a) + 28))) = 0

\* the exact value of such a float is (Hi28 * 2^14 + Lo28) * 2^-28
Hi28(a) ==
    IF a = 0 THEN 0
    ELSE LET k == Expo(a) + 28
         IN  Sign(a) * (IF k >= 14 THEN Mant(a) * (2 ^ (k - 14))
                        ELSE Mant(a) \div (2 ^ (14 - k)))

Lo28(a) ==
    IF a = 0 THEN 0
    ELSE LET k == Expo(a) + 28
         IN  Sign(a) * (IF k >= 14 THEN 0
                        ELSE IF k >= 0 THEN (Mant(a) % (2 ^ (14 - k))) * (2 ^ k)
                        ELSE (Mant(a) % (2 ^ (14 - k))) \div (2 ^ (0 - k)))

\* how far the first derivative of segment i at its end, a1 + 2 * a2 + 3 * a3
\* for the coefficients Hermite computes (the knots are 1 apart), is from the
\* tangent v1, in coordinate k: exactly, in units of 2^-28 (2^30 of them when
\* the numbers are out of the range of these units)
EndSlopeError[cpsq \in Seq(V2), tsq \in Seq(Int), i \in Nat, k \in 1..2] ==
    LET v0 == StartTangent(cpsq, tsq, i)
        v1 == EndTangent(cpsq, tsq, i)
        d == FSub(tsq[i + 1], tsq[i])
        a1 == v0[k]
        a2 == CoefA2[cpsq[i], v0, cpsq[i + 1], v1, d][k]
        a3 == CoefA3[cpsq[i], v0, cpsq[i + 1], v1, d][k]
        hi == Hi28(a1) + 2 * Hi28(a2) + 3 * Hi28(a3) - Hi28(v1[k])
        lo == Lo28(a1) + 2 * Lo28(a2) + 3 * Lo28(a3) - Lo28(v1[k])
    IN  IF d # F(1) \/ ~(Whole28(a1) /\ Whole28(a2) /\ Whole28(a3) /\ Whole28(v1[k]))
           \/ Abs(hi) >= 2 ^ 15
        THEN 2 ^ 30
        ELSE Abs(hi * (2 ^ 14) + lo)

\* 2^-18 of the largest coordinate, in units of 2^-28
SlopeTolerance(cpsq) ==
    (Hi28(MaxCoordinate(cpsq)) * (2 ^ 14) + Lo28(MaxCoordinate(cpsq))) \div (2 ^ 18)

\* (P[i+1] - P[i-1]) / (t[i+1] - t[i-1]) at the interior point i
CentralDifference(sp, i) ==
    VDiv(VSub(sp.cps_[i + 1], sp.cps_[i - 1]), FSub(sp.ts_[i + 1], sp.ts_[i - 1]))

\* the tangents at the two ends of the curve are zero
BoundaryTangentsAreZero(sp) ==
    Len(sp.cps_) >= 2 =>
        /\ StartTangent(sp.cps_, sp.ts_, 1) = Vec(0, 0)
        /\ EndTangent(sp.cps_, sp.ts_, Len(sp.cps_) - 1) = Vec(0, 0)

\* both segments at the interior point i are given the central difference as
\* their tangent there, and the segment that starts at i has exactly the
\* point i as its position at the knot (its first derivative there is its
\* coefficient a1, the tangent itself)
LeavesTheKnotExactly(sp, i) ==
    /\ Segment(sp.cps_, sp.ts_, i, sp.ts_[i]) = sp.cps_[i]
    /\ StartTangent(sp.cps_, sp.ts_, i) = CentralDifference(sp, i)
    /\ EndTangent(sp.cps_, sp.ts_, i - 1) = CentralDifference(sp, i)

\* C16 as stated: at every interior knot i the segments [i-1, i] and [i, i+1]
\* have the same position, the point i, and the same first derivative, the
\* central difference (P[i+1] - P[i-1]) / (t[i+1] - t[i-1]); the tangents at
\* the first and at the last point are zero.
KnotsJoinExactly ==
    /\ BoundaryTangentsAreZero(spline_)
    /\ \A i \in 2..(Len(spline_.cps_) - 1) :
            /\ LeavesTheKnotExactly(spline_, i)
            /\ Segment(spline_.cps_, spline_.ts_, i - 1, spline_.ts_[i]) = spline_.cps_[i]
            /\ \A k \in 1..2 : EndSlopeError[spline_.cps_, spline_.ts_, i - 1, k] = 0

\* C16: at every interior knot i both segments are given the same tangent, the
\* central difference, and the segment [i, i+1] starts at the point i with
\* that first derivative exactly; the segment [i-1, i] ends at the point i
\* with that first derivative up to the rounding of its coefficients: within
\* 2^-18 of the largest coordinate. The tangents at the first and at the last
\* point are zero.
KnotsJoinUpToRounding ==
    /\ BoundaryTangentsAreZero(spline_)
    /\ \A i \in 2..(Len(spline_.cps_) - 1) :
            /\ LeavesTheKnotExactly(spline_, i)
            /\ Near(Segment(spline_.cps_, spline_.ts_, i - 1, spline_.ts_[i]),
                    spline_.cps_[i], KnotTolerance(spline_.cps_))
            /\ \A k \in 1..2 : EndSlopeError[spline_.cps_, spline_.ts_, i - 1, k]
                                <= SlopeTolerance(spline_.cps_)

\* evaluate was called at an interior knot with a tangent that is not zero,
\* and the segment ending there misses both the point and the tangent
JoinedOffTheKnot ==
    \E i \in 2..(Len(spline_.cps_) - 1) :
        /\ EvaluatedAtKnot(i)
        /\ CentralDifference(spline_, i) # Vec(0, 0)
        /\ query.result # spline_.cps_[i]
        /\ \E k \in 1..2 : EndSlopeError[spline_.cps_, spline_.ts_, i - 1, k] > 0

\* sp2 is sp with one more point at the end: the points and the knots sp had
\* are where and what they were
OnlyAppended(sp, sp2) ==
    /\ Len(sp2.cps_) = Len(sp.cps_) + 1
    /\ Len(sp2.ts_) = Len(sp.ts_) + 1
    /\ SubSeq(sp2.cps_, 1, Len(sp.cps_)) = sp.cps_
    /\ SubSeq(sp2.ts_, 1, Len(sp.ts_)) = sp.ts_

\* C17: start() and animate never change the control points or their knots;
\* addControlPoint never changes the gondola (state, progress, velocity,
\* position, rotation) and only appends a point, leaving the earlier points
\* and knots as they were.
CallsKeepToTheirOwnState ==
    [][/\ last'.op \in {"start", "animate"} => spline_' = spline_
       /\ last'.op = "addControlPoint"
          => (gondola_' = gondola_ /\ OnlyAppended(spline_, spline_'))]_vars

\* a point was added to a track of two or more points under a moving gondola
\* that had left its starting place
AddedPointUnderMovingGondola ==
    /\ last.op = "addControlPoint"
    /\ Len(spline_.cps_) >= 3
    /\ last.pre.state_ = "Started"
    /\ last.pre.progressAlongSpline_ # StartProgress
    /\ gondola_ = last.pre

\* C18: start() with fewer than 2 control points still makes the state
\* Started; every animate that follows while there are fewer than 2 points
\* meets a tangent shorter than EPSILON and returns with nothing changed; so
\* while the knots are empty the test against getKnots().back() is not
\* reached: the step does the same whatever that read would give.
FewPointsNeverReadTheLastKnot ==
    [][/\ (last'.op = "start" /\ gondola_.state_ = "Waiting")
          => gondola_'.state_ = "Started"
       /\ (last'.op = "animate" /\ gondola_.state_ = "Started" /\ Len(spline_.cps_) < 2)
          => (FLt(Now.tangentLength, EPSILON) /\ gondola_' = gondola_)
       /\ (last'.op = "animate" /\ Len(getKnots(spline_)) = 0)
          => \A back \in Backs : gondola_' = animate(gondola_, spline_, last'.dt, back)]_vars

\* animate(dt) with dt > 0 was called on a gondola started on an empty track
AnimatedOnEmptyTrack ==
    /\ last.op = "animate"
    /\ FLt(0, last.dt)
    /\ Len(spline_.cps_) = 0
    /\ Len(getKnots(spline_)) = 0
    /\ last.pre.state_ = "Started"
    /\ gondola_ = last.pre

====
